---- MODULE Spec2Model ----
(***************************************************************************)
(* A model of bravo/beta/packets.py: the packet registry, the construct    *)
(* declarations it is written in, the bulk and incremental stream parsers, *)
(* make_packet, and the struct-based `simple` packets.                     *)
(*                                                                         *)
(* Representation of values.                                               *)
(*  - a byte string is a sequence of naturals 0..255;                      *)
(*  - a Container (and a dict) is a function from field names to values;   *)
(*  - integers of one or two bytes are TLA+ integers; integers of four or  *)
(*    eight bytes and IEEE floats do not fit TLC's 32-bit integers         *)
(*    and are kept as big-endian numerals in base 256 (one digit a byte);  *)
(*  - a text is the sequence of its 16-bit character codes;                *)
(*  - a stream position is the 0-based offset of stream.tell().           *)
(***************************************************************************)
EXTENDS Integers, Sequences, FiniteSets, TLC

VARIABLES
    bytestream,   \* the bytes written so far: the argument of the parsers
    frames,       \* what the bytes of bytestream were written from, in order
    call,         \* the last call: its name, its arguments and what it returned
    gen           \* the generator of parse_packets_incrementally

vars == <<bytestream, frames, call, gen>>

(***************************************************************************)
(* Bounds of the model.                                                    *)
(***************************************************************************)
MaxStream == 6    \* bytes of a stream that holds more than one frame
MaxFrames == 2    \* whole packets of a stream
MaxRaw == 2       \* raw bytes fed to a stream
MaxArray == 1     \* elements of an array, bytes of a blob, of a sample packet
MaxText == 1      \* characters of a text of a sample packet
MaxMeta == 2      \* entries of a metadata mapping
MaxExtra == 2     \* positional containers of a make_packet call
MaxBuf == 7       \* bytes of a buffer handed to a field codec
MaxTail == 2      \* bytes that follow a built string in its stream
MaxChars == 3     \* characters of a text handed to AlphaString
MaxOffset == 4    \* offset of a simple parse

None == "None"
EmptyContainer == <<>>

Put(ctx, name, v) ==
    [k \in (DOMAIN ctx) \cup {name} |-> IF k = name THEN v ELSE ctx[k]]

(***************************************************************************)
(* construct's declarations, as data.                                      *)
(***************************************************************************)
FormatField(name, length, signed) ==
    [con |-> "FormatField", name |-> name, length |-> length, signed |-> signed]

UBInt8(name) == FormatField(name, 1, FALSE)
UBInt16(name) == FormatField(name, 2, FALSE)
UBInt32(name) == FormatField(name, 4, FALSE)
UBInt64(name) == FormatField(name, 8, FALSE)
SBInt8(name) == FormatField(name, 1, TRUE)
SBInt16(name) == FormatField(name, 2, TRUE)
SBInt32(name) == FormatField(name, 4, TRUE)
BFloat32(name) == FormatField(name, 4, FALSE)
BFloat64(name) == FormatField(name, 8, FALSE)

Struct(name, subcons) ==
    [con |-> "Struct", name |-> name, subcons |-> subcons, embed |-> FALSE]

Embed(subcon) == [subcon EXCEPT !.embed = TRUE]

\* If(lambda context: context[key] >= min, subcon): the flags of subcon are
\* inherited, so If(.., Embed(..)) is embedded too.
If(key, min, subcon) ==
    [con |-> "If", name |-> subcon.name, key |-> key, min |-> min,
     subcon |-> subcon, embed |-> subcon.embed]

Magic(data) == [con |-> "Magic", name |-> None, data |-> data]

Enum(subcon, mapping) ==
    [con |-> "Enum", name |-> subcon.name, subcon |-> subcon, mapping |-> mapping]

Flag(name, default) == [con |-> "Flag", name |-> name, default |-> default]

\* MetaField(name, lambda ctx: ctx[key] * mult)
MetaField(name, key, mult) ==
    [con |-> "MetaField", name |-> name, key |-> key, mult |-> mult]

\* MetaArray(lambda context: context[key], subcon)
MetaArray(key, subcon) ==
    [con |-> "MetaArray", name |-> subcon.name, key |-> key, subcon |-> subcon]

PascalString(name, length_field, encoding) ==
    [con |-> "PascalString", name |-> name, length_field |-> length_field,
     encoding |-> encoding]

AlphaString(name) == [con |-> "AlphaString", name |-> name]

Bool(name) == Flag(name, TRUE)

metadata == [con |-> "MetadataAdapter", name |-> "metadata"]

metadata_types == <<"byte", "short", "int", "float", "string", "slot", "coords">>

metadata_switch ==
    (0 :> UBInt8("value")) @@
    (1 :> UBInt16("value")) @@
    (2 :> UBInt32("value")) @@
    (3 :> BFloat32("value")) @@
    (4 :> AlphaString("value")) @@
    (5 :> Struct("slot", <<UBInt16("primary"), UBInt8("count"), UBInt16("secondary")>>)) @@
    (6 :> Struct("coords", <<UBInt32("x"), UBInt32("y"), UBInt32("z")>>))

\* packets.py lines 89-89
grounded ==
    Struct("grounded", <<UBInt8("grounded")>>)

\* packets.py lines 90-95
position ==
    Struct("position", <<BFloat64("x"), BFloat64("y"), BFloat64("stance"), BFloat64("z")>>)

\* packets.py lines 96-96
orientation ==
    Struct("orientation", <<BFloat32("rotation"), BFloat32("pitch")>>)

\* packets.py lines 99-108
items ==
    Struct("items", <<SBInt16("primary"), If("primary", 0, Embed(Struct("item_information", <<UBInt8("count"), UBInt16("secondary"), Magic(<<255, 255>>)>>)))>>)

\* packets.py lines 177-185
faces ==
    ("noop" :> -1 @@ "-y" :> 0 @@ "+y" :> 1 @@ "-z" :> 2 @@ "+z" :> 3 @@ "-x" :> 4 @@ "+x" :> 5)

\* packets.py lines 186-186
face ==
    Enum(SBInt8("face"), faces)

\* packets.py lines 189-193
dimensions ==
    ("earth" :> 0 @@ "sky" :> 1 @@ "nether" :> 255)

\* packets.py lines 194-194
dimension ==
    Enum(UBInt8("dimension"), dimensions)

\* packets.py lines 197-202
difficulties ==
    ("peaceful" :> 0 @@ "easy" :> 1 @@ "normal" :> 2 @@ "hard" :> 3)

\* packets.py lines 203-203
difficulty ==
    Enum(UBInt8("difficulty"), difficulties)

\* packets.py lines 205-209
modes ==
    ("survival" :> 0 @@ "creative" :> 1 @@ "adventure" :> 2)

\* packets.py lines 210-210
mode ==
    Enum(UBInt8("mode"), modes)

\* packets.py lines 214-235
effect ==
    Enum(UBInt8("effect"), ("move_fast" :> 1 @@ "move_slow" :> 2 @@ "dig_fast" :> 3 @@ "dig_slow" :> 4 @@ "damage_boost" :> 5 @@ "heal" :> 6 @@ "harm" :> 7 @@ "jump" :> 8 @@ "confusion" :> 9 @@ "regenerate" :> 10 @@ "resistance" :> 11 @@ "fire_resistance" :> 12 @@ "water_resistance" :> 13 @@ "invisibility" :> 14 @@ "blindness" :> 15 @@ "night_vision" :> 16 @@ "hunger" :> 17 @@ "weakness" :> 18 @@ "poison" :> 19 @@ "wither" :> 20))

packets ==
    (0 :> Struct("ping", <<UBInt32("pid")>>)) @@
    (1 :> Struct("login", <<UBInt32("eid"), AlphaString("leveltype"), mode, dimension, difficulty, UBInt8("unused"), UBInt8("maxplayers")>>)) @@
    (2 :> Struct("handshake", <<UBInt8("protocol"), AlphaString("username"), AlphaString("host"), UBInt32("port")>>)) @@
    (3 :> Struct("chat", <<AlphaString("message")>>)) @@
    (4 :> Struct("time", <<UBInt64("timestamp"), UBInt64("time")>>)) @@
    (5 :> Struct("entity-equipment", <<UBInt32("eid"), UBInt16("slot"), Embed(items)>>)) @@
    (6 :> Struct("spawn", <<SBInt32("x"), SBInt32("y"), SBInt32("z")>>)) @@
    (7 :> Struct("use", <<UBInt32("eid"), UBInt32("target"), UBInt8("button")>>)) @@
    (8 :> Struct("health", <<UBInt16("hp"), UBInt16("fp"), BFloat32("saturation")>>)) @@
    (9 :> Struct("respawn", <<dimension, difficulty, mode, UBInt16("height"), AlphaString("leveltype")>>)) @@
    (10 :> grounded) @@
    (11 :> Struct("position", <<position, grounded>>)) @@
    (12 :> Struct("orientation", <<orientation, grounded>>)) @@
    (13 :> Struct("location", <<position, orientation, grounded>>)) @@
    (14 :> Struct("digging", <<Enum(UBInt8("state"), ("started" :> 0 @@ "cancelled" :> 1 @@ "stopped" :> 2 @@ "checked" :> 3 @@ "dropped" :> 4 @@ "shooting" :> 5)), SBInt32("x"), UBInt8("y"), SBInt32("z"), face>>)) @@
    (15 :> Struct("build", <<SBInt32("x"), UBInt8("y"), SBInt32("z"), face, Embed(items), UBInt8("cursorx"), UBInt8("cursory"), UBInt8("cursorz")>>)) @@
    (16 :> Struct("equip", <<UBInt16("slot")>>)) @@
    (17 :> Struct("bed", <<UBInt32("eid"), UBInt8("unknown"), SBInt32("x"), UBInt8("y"), SBInt32("z")>>)) @@
    (18 :> Struct("animate", <<UBInt32("eid"), Enum(UBInt8("animation"), ("noop" :> 0 @@ "arm" :> 1 @@ "hit" :> 2 @@ "leave_bed" :> 3 @@ "eat" :> 5 @@ "unknown" :> 102 @@ "crouch" :> 104 @@ "uncrouch" :> 105))>>)) @@
    (19 :> Struct("action", <<UBInt32("eid"), Enum(UBInt8("action"), ("crouch" :> 1 @@ "uncrouch" :> 2 @@ "leave_bed" :> 3 @@ "start_sprint" :> 4 @@ "stop_sprint" :> 5))>>)) @@
    (20 :> Struct("player", <<UBInt32("eid"), AlphaString("username"), SBInt32("x"), SBInt32("y"), SBInt32("z"), UBInt8("yaw"), UBInt8("pitch"), SBInt16("item"), metadata>>)) @@
    (21 :> Struct("pickup", <<UBInt32("eid"), Embed(items), SBInt32("x"), SBInt32("y"), SBInt32("z"), UBInt8("yaw"), UBInt8("pitch"), UBInt8("roll")>>)) @@
    (22 :> Struct("collect", <<UBInt32("eid"), UBInt32("destination")>>)) @@
    (23 :> Struct("vehicle", <<UBInt32("eid"), Enum(UBInt8("type"), ("boat" :> 1 @@ "minecart" :> 10 @@ "storage_cart" :> 11 @@ "powered_cart" :> 12 @@ "tnt" :> 50 @@ "ender_crystal" :> 51 @@ "arrow" :> 60 @@ "snowball" :> 61 @@ "egg" :> 62 @@ "thrown_enderpearl" :> 65 @@ "wither_skull" :> 66 @@ "falling_block" :> 70 @@ "ender_eye" :> 72 @@ "thrown_potion" :> 73 @@ "dragon_egg" :> 74 @@ "thrown_xp_bottle" :> 75 @@ "fishing_float" :> 90)), SBInt32("x"), SBInt32("y"), SBInt32("z"), SBInt32("data"), SBInt16("speedx"), SBInt16("speedy"), SBInt16("speedz")>>)) @@
    (24 :> Struct("mob", <<UBInt32("eid"), Enum(UBInt8("type"), ("Creeper" :> 50 @@ "Skeleton" :> 51 @@ "Spider" :> 52 @@ "GiantZombie" :> 53 @@ "Zombie" :> 54 @@ "Slime" :> 55 @@ "Ghast" :> 56 @@ "ZombiePig" :> 57 @@ "Enderman" :> 58 @@ "CaveSpider" :> 59 @@ "Silverfish" :> 60 @@ "Blaze" :> 61 @@ "MagmaCube" :> 62 @@ "EnderDragon" :> 63 @@ "Wither" :> 64 @@ "Bat" :> 65 @@ "Witch" :> 66 @@ "Pig" :> 90 @@ "Sheep" :> 91 @@ "Cow" :> 92 @@ "Chicken" :> 93 @@ "Squid" :> 94 @@ "Wolf" :> 95 @@ "Mooshroom" :> 96 @@ "Snowman" :> 97 @@ "Ocelot" :> 98 @@ "IronGolem" :> 99 @@ "Villager" :> 120)), SBInt32("x"), SBInt32("y"), SBInt32("z"), SBInt8("yaw"), SBInt8("pitch"), SBInt8("head_yaw"), SBInt16("vx"), SBInt16("vy"), SBInt16("vz"), metadata>>)) @@
    (25 :> Struct("painting", <<UBInt32("eid"), AlphaString("title"), SBInt32("x"), SBInt32("y"), SBInt32("z"), face>>)) @@
    (26 :> Struct("experience", <<UBInt32("eid"), SBInt32("x"), SBInt32("y"), SBInt32("z"), UBInt16("quantity")>>)) @@
    (28 :> Struct("velocity", <<UBInt32("eid"), SBInt16("dx"), SBInt16("dy"), SBInt16("dz")>>)) @@
    (29 :> Struct("destroy", <<UBInt8("count"), MetaArray("count", UBInt32("eid"))>>)) @@
    (30 :> Struct("create", <<UBInt32("eid")>>)) @@
    (31 :> Struct("entity-position", <<UBInt32("eid"), SBInt8("dx"), SBInt8("dy"), SBInt8("dz")>>)) @@
    (32 :> Struct("entity-orientation", <<UBInt32("eid"), UBInt8("yaw"), UBInt8("pitch")>>)) @@
    (33 :> Struct("entity-location", <<UBInt32("eid"), SBInt8("dx"), SBInt8("dy"), SBInt8("dz"), UBInt8("yaw"), UBInt8("pitch")>>)) @@
    (34 :> Struct("teleport", <<UBInt32("eid"), SBInt32("x"), SBInt32("y"), SBInt32("z"), UBInt8("yaw"), UBInt8("pitch")>>)) @@
    (35 :> Struct("entity-head", <<UBInt32("eid"), UBInt8("yaw")>>)) @@
    (38 :> Struct("status", <<UBInt32("eid"), Enum(UBInt8("status"), ("damaged" :> 2 @@ "killed" :> 3 @@ "taming" :> 6 @@ "tamed" :> 7 @@ "drying" :> 8 @@ "eating" :> 9 @@ "sheep_eat" :> 10))>>)) @@
    (39 :> Struct("attach", <<UBInt32("eid"), UBInt32("vid")>>)) @@
    (40 :> Struct("metadata", <<UBInt32("eid"), metadata>>)) @@
    (41 :> Struct("effect", <<UBInt32("eid"), effect, UBInt8("amount"), UBInt16("duration")>>)) @@
    (42 :> Struct("uneffect", <<UBInt32("eid"), effect>>)) @@
    (43 :> Struct("levelup", <<BFloat32("current"), UBInt16("level"), UBInt16("total")>>)) @@
    (51 :> Struct("chunk", <<SBInt32("x"), SBInt32("z"), Bool("continuous"), UBInt16("primary"), UBInt16("add"), PascalString("data", UBInt32("length"), "zlib")>>)) @@
    (52 :> Struct("batch", <<SBInt32("x"), SBInt32("z"), UBInt16("count"), PascalString("data", UBInt32("length"), "")>>)) @@
    (53 :> Struct("block", <<SBInt32("x"), UBInt8("y"), SBInt32("z"), UBInt16("type"), UBInt8("meta")>>)) @@
    (54 :> Struct("block-action", <<SBInt32("x"), SBInt16("y"), SBInt32("z"), UBInt8("byte1"), UBInt8("byte2"), UBInt16("blockid")>>)) @@
    (55 :> Struct("block-break-anim", <<UBInt32("eid"), UBInt32("x"), UBInt32("y"), UBInt32("z"), UBInt8("stage")>>)) @@
    (56 :> Struct("bulk-chunk", <<UBInt16("count")>>)) @@
    (60 :> Struct("explosion", <<BFloat64("x"), BFloat64("y"), BFloat64("z"), BFloat32("radius"), UBInt32("count"), MetaField("blocks", "count", 3), BFloat32("motionx"), BFloat32("motiony"), BFloat32("motionz")>>)) @@
    (61 :> Struct("sound", <<Enum(UBInt32("sid"), ("click2" :> 1000 @@ "click1" :> 1001 @@ "bow_fire" :> 1002 @@ "door_toggle" :> 1003 @@ "extinguish" :> 1004 @@ "record_play" :> 1005 @@ "charge" :> 1007 @@ "fireball" :> 1008 @@ "zombie_wood" :> 1010 @@ "zombie_metal" :> 1011 @@ "zombie_break" :> 1012 @@ "wither" :> 1013 @@ "smoke" :> 2000 @@ "block_break" :> 2001 @@ "splash_potion" :> 2002 @@ "ender_eye" :> 2003 @@ "blaze" :> 2004)), SBInt32("x"), UBInt8("y"), SBInt32("z"), UBInt32("data"), Bool("volume-mod")>>)) @@
    (62 :> Struct("named-sound", <<AlphaString("name"), UBInt32("x"), UBInt32("y"), UBInt32("z"), BFloat32("volume"), UBInt8("pitch")>>)) @@
    (70 :> Struct("state", <<Enum(UBInt8("state"), ("bad_bed" :> 0 @@ "start_rain" :> 1 @@ "stop_rain" :> 2 @@ "mode_change" :> 3 @@ "run_credits" :> 4)), mode>>)) @@
    (71 :> Struct("thunderbolt", <<UBInt32("eid"), UBInt8("gid"), SBInt32("x"), SBInt32("y"), SBInt32("z")>>)) @@
    (100 :> Struct("window-open", <<UBInt8("wid"), Enum(UBInt8("type"), ("chest" :> 0 @@ "workbench" :> 1 @@ "furnace" :> 2 @@ "dispenser" :> 3 @@ "enchatment_table" :> 4 @@ "brewing_stand" :> 5)), AlphaString("title"), UBInt8("slots")>>)) @@
    (101 :> Struct("window-close", <<UBInt8("wid")>>)) @@
    (102 :> Struct("window-action", <<UBInt8("wid"), UBInt16("slot"), UBInt8("button"), UBInt16("token"), Bool("shift"), Embed(items)>>)) @@
    (103 :> Struct("window-slot", <<UBInt8("wid"), UBInt16("slot"), Embed(items)>>)) @@
    (104 :> Struct("inventory", <<UBInt8("wid"), UBInt16("length"), MetaArray("length", items)>>)) @@
    (105 :> Struct("window-progress", <<UBInt8("wid"), UBInt16("bar"), UBInt16("progress")>>)) @@
    (106 :> Struct("window-token", <<UBInt8("wid"), UBInt16("token"), Bool("acknowledged")>>)) @@
    (107 :> Struct("window-creative", <<UBInt16("slot"), Embed(items)>>)) @@
    (108 :> Struct("enchant", <<UBInt8("wid"), UBInt8("enchantment")>>)) @@
    (130 :> Struct("sign", <<SBInt32("x"), UBInt16("y"), SBInt32("z"), AlphaString("line1"), AlphaString("line2"), AlphaString("line3"), AlphaString("line4")>>)) @@
    (131 :> Struct("map", <<UBInt16("type"), UBInt16("itemid"), PascalString("data", UBInt8("length"), "")>>)) @@
    (132 :> Struct("tile-update", <<SBInt32("x"), UBInt16("y"), SBInt32("z"), UBInt8("action")>>)) @@
    (200 :> Struct("statistics", <<UBInt32("sid"), UBInt8("count")>>)) @@
    (201 :> Struct("players", <<AlphaString("name"), Bool("online"), UBInt16("ping")>>)) @@
    (202 :> Struct("abilities", <<UBInt8("flags"), UBInt8("fly-speed"), UBInt8("walk-speed")>>)) @@
    (203 :> Struct("tab", <<AlphaString("autocomplete")>>)) @@
    (204 :> Struct("settings", <<AlphaString("locale"), UBInt8("distance"), UBInt8("chat"), difficulty, Bool("cape")>>)) @@
    (205 :> Struct("statuses", <<UBInt8("payload")>>)) @@
    (250 :> Struct("plugin-message", <<AlphaString("channel"), UBInt16("length")>>)) @@
    (252 :> Struct("key-response", <<UBInt16("shared-len"), UBInt16("token-len")>>)) @@
    (253 :> Struct("key-request", <<AlphaString("server"), UBInt16("key-len"), UBInt16("token-len")>>)) @@
    (254 :> Struct("poll", <<UBInt8("unused")>>)) @@
    (255 :> Struct("error", <<AlphaString("message")>>))

(***************************************************************************)
(* Parsing.  A parse returns [st, pos, val]: st is "ok" or the name of the *)
(* exception raised, pos the stream position after it, val the value.      *)
(***************************************************************************)
Ok(pos, val) == [st |-> "ok", pos |-> pos, val |-> val]
Raise(err, pos) == [st |-> err, pos |-> pos, val |-> None]

\* What follows a parse: nothing when it raised, else K of its result.
Then(r, K(_)) == IF r.st # "ok" THEN r ELSE K(r)

\* construct's exception classes: the subclasses of ConstructError in use.
ConstructError ==
    {"FieldError", "MappingError", "ConstError", "SwitchError", "ArrayError"}

_read_stream(buf, pos, length) ==
    IF pos + length > Len(buf)
    THEN Raise("FieldError", pos)
    ELSE Ok(pos + length, SubSeq(buf, pos + 1, pos + length))

RECURSIVE BigEndian(_)
BigEndian(data) ==
    IF data = <<>> THEN 0
    ELSE BigEndian(SubSeq(data, 1, Len(data) - 1)) * 256 + data[Len(data)]

RECURSIVE ToBytes(_, _)
ToBytes(n, length) ==
    IF length = 0 THEN <<>>
    ELSE Append(ToBytes(n \div 256, length - 1), n % 256)

\* The value of a numeral, saturated: a count this large is never met by a
\* buffer of the model.
NumeralValue(data) ==
    IF \E i \in 1..(Len(data) - 3) : data[i] # 0
    THEN 256 * 256 * 256
    ELSE BigEndian(SubSeq(data, IF Len(data) > 3 THEN Len(data) - 2 ELSE 1, Len(data)))

\* struct.unpack of a big-endian integer (a float's bits stay a numeral).
Signed(u, half) == IF u >= half THEN u - 2 * half ELSE u
Unpack(con, data) ==
    IF con.length > 2 THEN data
    ELSE IF con.signed
         THEN Signed(BigEndian(data), IF con.length = 1 THEN 128 ELSE 32768)
         ELSE BigEndian(data)

FormatField_parse(con, buf, pos) ==
    Then(_read_stream(buf, pos, con.length),
         LAMBDA r : Ok(r.pos, Unpack(con, r.val)))

\* The integer a context lambda reads from the sibling field `key`.
IsWide(scope, key) ==
    \E i \in DOMAIN scope : scope[i].name = key /\ scope[i].length > 2
CountValue(scope, key, ctx) ==
    IF IsWide(scope, key) THEN NumeralValue(ctx[key]) ELSE ctx[key]

\* MappingAdapter._decode of Enum: the name of the value, or MappingError.
NamesOf(mapping, v) == {n \in DOMAIN mapping : mapping[n] = v}
Enum_decode(con, r) ==
    IF NamesOf(con.mapping, IF con.subcon.length > 2 THEN NumeralValue(r.val)
                            ELSE r.val) = {}
    THEN Raise("MappingError", r.pos)
    ELSE Ok(r.pos, CHOOSE n \in DOMAIN con.mapping :
                      con.mapping[n] = IF con.subcon.length > 2
                                       THEN NumeralValue(r.val) ELSE r.val)

\* Flag(name, truth=1, falsehood=0, default): a SymmetricMapping over UBInt8.
Flag_parse(con, buf, pos) ==
    Then(_read_stream(buf, pos, 1),
         LAMBDA r : Ok(r.pos, IF r.val[1] = 1 THEN TRUE
                              ELSE IF r.val[1] = 0 THEN FALSE ELSE con.default))

\* A Magic that reads its bytes and does not compare them.
Magic_parse_unchecked(con, buf, pos) == _read_stream(buf, pos, Len(con.data))

\* Magic(data): ConstAdapter(Field(None, len(data)), data).
Magic_parse(con, buf, pos) ==
    Then(_read_stream(buf, pos, Len(con.data)),
         LAMBDA r : IF r.val # con.data THEN Raise("ConstError", r.pos)
                    ELSE Ok(r.pos, r.val))

\* The "ucs2" codec of bravo.encodings: two bytes a character, big-endian.
RECURSIVE ucs2_decode(_)
ucs2_decode(data) ==
    IF Len(data) < 2 THEN <<>>
    ELSE <<data[1] * 256 + data[2]>> \o ucs2_decode(SubSeq(data, 3, Len(data)))

RECURSIVE ucs2_encode(_)
ucs2_encode(text) ==
    IF text = <<>> THEN <<>>
    ELSE <<text[1] \div 256, text[1] % 256>> \o ucs2_encode(Tail(text))

\* The "zlib" codec of str.encode/str.decode, kept abstract: a deflate stream
\* is its header byte 0x78 and the data; bytes that are no such stream make
\* the decoder raise zlib.error, which is no ConstructError.
ZlibHeader == 120
IsZlib(data) == IF data = <<>> THEN FALSE ELSE data[1] = ZlibHeader
zlib_decode(data) == Tail(data)
zlib_encode(data) == <<ZlibHeader>> \o data

\* LengthValueAdapter._decode: the value of the (length, value) pair.
LengthValueAdapter_decode(obj) == obj[2]

\* AlphaString: StringAdapter(DoubleAdapter(Sequence(name, UBInt16("length"),
\* MetaField("data", lambda ctx: ctx["length"] * 2))), encoding="ucs2").
AlphaString_parse(buf, pos) ==
    Then(FormatField_parse(UBInt16("length"), buf, pos),
         LAMBDA length :
            Then(_read_stream(buf, length.pos, length.val * 2),
                 LAMBDA data :
                    Ok(data.pos,
                       ucs2_decode(LengthValueAdapter_decode(
                           <<length.val, data.val>>)))))

\* PascalString(name, length_field, encoding): StringAdapter(
\* LengthValueAdapter(Sequence(name, length_field, Field("data", length))))
StringAdapter_decode(encoding, pos, obj) ==
    IF encoding # "zlib" THEN Ok(pos, obj)
    ELSE IF IsZlib(obj) THEN Ok(pos, zlib_decode(obj))
    ELSE Raise("zlib.error", pos)
PascalString_parse(con, buf, pos) ==
    Then(FormatField_parse(con.length_field, buf, pos),
         LAMBDA length :
            Then(_read_stream(buf, length.pos,
                              IF con.length_field.length > 2
                              THEN NumeralValue(length.val) ELSE length.val),
                 LAMBDA data :
                    StringAdapter_decode(con.encoding, data.pos,
                        LengthValueAdapter_decode(<<Len(data.val), data.val>>))))

IsEmbedded(sc) == sc.con \in {"Struct", "If"} /\ sc.embed

\* Peek(UBInt8("peeked")): the next byte, not consumed; None (here -1) at the
\* end of the stream, where the FieldError is swallowed.
NoPeek == 0 - 1
Peek_parse(buf, pos) == IF pos < Len(buf) THEN buf[pos + 1] ELSE NoPeek

\* MetadataAdapter._decode: the entries as a dict from slot to Metadata.
RECURSIVE MetadataAdapter_decode(_, _)
MetadataAdapter_decode(data, d) ==
    IF data = <<>> THEN d
    ELSE MetadataAdapter_decode(Tail(data),
            Put(d, Head(data).id.second,
                [type |-> metadata_types[Head(data).id.first + 1],
                 value |-> Head(data).value]))

RECURSIVE ParseCon(_, _, _, _, _)
RECURSIVE ParseSubcons(_, _, _, _, _)
RECURSIVE ParseArray(_, _, _, _, _, _, _)
RECURSIVE RepeatUntil_parse(_, _, _)

\* Struct("data", BitStruct("id", BitField("first", 3), BitField("second", 5)),
\* Switch("value", first, metadata_switch), Peek(UBInt8("peeked")))
metadata_data_parse(buf, pos) ==
    Then(_read_stream(buf, pos, 1),
         LAMBDA id :
            IF (id.val[1] \div 32) \notin DOMAIN metadata_switch
            THEN Raise("SwitchError", id.pos)
            ELSE Then(ParseCon(metadata_switch[id.val[1] \div 32], buf, id.pos,
                               EmptyContainer, <<>>),
                      LAMBDA value :
                         Ok(value.pos,
                            [id |-> [first |-> id.val[1] \div 32,
                                     second |-> id.val[1] % 32],
                             value |-> value.val,
                             peeked |-> Peek_parse(buf, value.pos)])))

\* RepeatUntil(lambda obj, context: obj["peeked"] == 0x7f, data): a
\* ConstructError of an entry is raised again as an ArrayError.
AsArrayError(r) ==
    IF r.st \in ConstructError THEN Raise("ArrayError", r.pos) ELSE r
RepeatUntil_parse(buf, pos, obj) ==
    Then(AsArrayError(metadata_data_parse(buf, pos)),
         LAMBDA r :
            IF r.val.peeked = 127 THEN Ok(r.pos, Append(obj, r.val))
            ELSE RepeatUntil_parse(buf, r.pos, Append(obj, r.val)))

\* metadata: MetadataAdapter(Struct("metadata", RepeatUntil(..),
\* Const(UBInt8("terminator"), 0x7f)))
metadata_parse(buf, pos) ==
    Then(RepeatUntil_parse(buf, pos, <<>>),
         LAMBDA data :
            Then(_read_stream(buf, data.pos, 1),
                 LAMBDA terminator :
                    IF terminator.val[1] # 127
                    THEN Raise("ConstError", terminator.pos)
                    ELSE Ok(terminator.pos,
                            MetadataAdapter_decode(data.val, EmptyContainer))))

\* Construct._parse, by the class of the construct.  ctx is the context of
\* the enclosing Struct and scope its subcons.
ParseCon(con, buf, pos, ctx, scope) ==
    CASE con.con = "FormatField" -> FormatField_parse(con, buf, pos)
      [] con.con = "Struct" ->
            ParseSubcons(con.subcons, 1, buf, pos,
                         IF con.embed THEN ctx ELSE EmptyContainer)
      [] con.con = "If" ->
            IF ctx[con.key] >= con.min
            THEN ParseCon(con.subcon, buf, pos, ctx, scope)
            ELSE Ok(pos, IF con.embed THEN ctx ELSE None)
      [] con.con = "Magic" -> Magic_parse(con, buf, pos)
      [] con.con = "Enum" ->
            Then(ParseCon(con.subcon, buf, pos, ctx, scope),
                 LAMBDA r : Enum_decode(con, r))
      [] con.con = "Flag" -> Flag_parse(con, buf, pos)
      [] con.con = "MetaField" ->
            _read_stream(buf, pos, CountValue(scope, con.key, ctx) * con.mult)
      [] con.con = "MetaArray" ->
            ParseArray(con.subcon, CountValue(scope, con.key, ctx), buf, pos,
                       ctx, scope, <<>>)
      [] con.con = "PascalString" -> PascalString_parse(con, buf, pos)
      [] con.con = "AlphaString" -> AlphaString_parse(buf, pos)
      [] con.con = "MetadataAdapter" -> metadata_parse(buf, pos)

\* Struct._parse: the subcons in order; an embedded subcon fills the object
\* of its parent, a subcon without a name (Magic) leaves no field.
ParseSubcons(subcons, i, buf, pos, obj) ==
    IF i > Len(subcons) THEN Ok(pos, obj)
    ELSE Then(ParseCon(subcons[i], buf, pos, obj, subcons),
              LAMBDA r :
                 ParseSubcons(subcons, i + 1, buf, r.pos,
                     IF IsEmbedded(subcons[i]) THEN r.val
                     ELSE IF subcons[i].name = None THEN obj
                     ELSE Put(obj, subcons[i].name, r.val)))

\* MetaArray._parse: exactly count elements.
ParseArray(subcon, count, buf, pos, ctx, scope, obj) ==
    IF Len(obj) >= count THEN Ok(pos, obj)
    ELSE Then(ParseCon(subcon, buf, pos, ctx, scope),
              LAMBDA r :
                 ParseArray(subcon, count, buf, r.pos, ctx, scope,
                            Append(obj, r.val)))

\* Struct("full_packet", UBInt8("header"),
\*        Switch("payload", lambda context: context["header"], packets))
full_packet_parse(buf, pos) ==
    Then(FormatField_parse(UBInt8("header"), buf, pos),
         LAMBDA header :
            IF header.val \notin DOMAIN packets
            THEN Raise("SwitchError", header.pos)
            ELSE Then(ParseCon(packets[header.val], buf, header.pos,
                               EmptyContainer, <<>>),
                      LAMBDA payload :
                         Ok(payload.pos, [header |-> header.val,
                                          payload |-> payload.val])))

\* OptionalGreedyRange(full_packet): Range._parse parses until a
\* ConstructError, which it swallows, seeking back to where the element began.
RECURSIVE Range_parse(_, _, _)
\* A Range that leaves the stream where the failed element stopped reading.
Range_step_noseek(buf, pos, obj, r) ==
    IF r.st = "ok" THEN Range_parse(buf, r.pos, Append(obj, r.val))
    ELSE IF r.st \in ConstructError THEN Ok(r.pos, obj)
    ELSE r
\* A Range that swallows only the end of the stream.
Range_step_strict(buf, pos, obj, r) ==
    IF r.st = "ok" THEN Range_parse(buf, r.pos, Append(obj, r.val))
    ELSE IF r.st = "FieldError" THEN Ok(pos, obj)
    ELSE r
Range_step(buf, pos, obj, r) ==
    IF r.st = "ok" THEN Range_parse(buf, r.pos, Append(obj, r.val))
    ELSE IF r.st \in ConstructError THEN Ok(pos, obj)
    ELSE r
Range_parse(buf, pos, obj) == Range_step(buf, pos, obj, full_packet_parse(buf, pos))

\* Leftovers taken from the start of the stream, not from where it stands.
Leftovers_rewound(buf, pos) == buf

\* OptionalGreedyRange(UBInt8("leftovers")): every byte that remains.
Leftovers(buf, pos) == SubSeq(buf, pos + 1, Len(buf))

\* packet_stream.parse: the packets, then the leftovers.
packet_stream_parse(buf) ==
    Then(Range_parse(buf, 0, <<>>),
         LAMBDA r : Ok(Len(buf), [full_packet |-> r.val,
                                  leftovers |-> Leftovers(buf, r.pos)]))

\* parse_packets(bytestream): (l, leftovers), or the exception raised.
Unpacked(container) ==
    IF container.st # "ok"
    THEN [st |-> container.st, l |-> <<>>, leftovers |-> <<>>]
    ELSE [st |-> "ok",
          l |-> [i \in 1..Len(container.val.full_packet) |->
                    <<container.val.full_packet[i].header,
                      container.val.full_packet[i].payload>>],
          leftovers |-> container.val.leftovers]
parse_packets(buf) == Unpacked(packet_stream_parse(buf))

\* incremental_packet_stream.parse: one full_packet, whose errors are not
\* caught, then the leftovers.
incremental_packet_stream_parse(buf) ==
    Then(full_packet_parse(buf, 0),
         LAMBDA r : Ok(Len(buf), [full_packet |-> r.val,
                                  leftovers |-> Leftovers(buf, r.pos)]))

(***************************************************************************)
(* Building.  A build returns [st, data]: st is "ok" or the name of the    *)
(* exception raised, data the bytes written.                               *)
(***************************************************************************)
Built(data) == [st |-> "ok", data |-> data]
BuildRaise(err) == [st |-> err, data |-> <<>>]

\* What is written by two builds in a row; the first exception ends it.
Cat(r, rest) ==
    IF r.st # "ok" THEN r
    ELSE IF rest.st # "ok" THEN rest
    ELSE Built(r.data \o rest.data)

\* struct.pack of a big-endian integer; a value out of range is a FieldError.
PackInt(v, length, full, lo) ==
    IF v < lo \/ v > lo + full - 1 THEN BuildRaise("FieldError")
    ELSE Built(ToBytes((v + full) % full, length))
Pack(con, v) ==
    IF con.length > 2
    THEN IF Len(v) = con.length THEN Built(v) ELSE BuildRaise("FieldError")
    ELSE IF con.length = 1
         THEN PackInt(v, 1, 256, IF con.signed THEN 0 - 128 ELSE 0)
         ELSE PackInt(v, 2, 65536, IF con.signed THEN 0 - 32768 ELSE 0)

\* MappingAdapter._encode of Enum: the value of the name, or MappingError.
Enum_encode(con, name) ==
    IF name \notin DOMAIN con.mapping THEN BuildRaise("MappingError")
    ELSE IF con.subcon.length > 2
         THEN Built(ToBytes(con.mapping[name], con.subcon.length))
         ELSE Pack(con.subcon, con.mapping[name])

Flag_build(obj) == Built(IF obj THEN <<1>> ELSE <<0>>)

\* A DoubleAdapter that writes the length of the data in bytes.
DoubleAdapter_encode_bytes(obj) == <<Len(obj), obj>>
\* DoubleAdapter._encode(obj): the length written is half that of the data.
DoubleAdapter_encode(obj) == <<Len(obj) \div 2, obj>>

\* LengthValueAdapter._encode(obj)
LengthValueAdapter_encode(obj) == <<Len(obj), obj>>

\* AlphaString build: the text encoded, then Sequence(UBInt16("length"),
\* MetaField("data", lambda ctx: ctx["length"] * 2)) of DoubleAdapter's pair.
Sequence_build(length_field, scale, pair) ==
    IF Len(pair[2]) # pair[1] * scale THEN BuildRaise("FieldError")
    ELSE Cat(IF length_field.length > 2
             THEN Built(ToBytes(pair[1], length_field.length))
             ELSE Pack(length_field, pair[1]),
             Built(pair[2]))
AlphaString_build(text) ==
    Sequence_build(UBInt16("length"), 2, DoubleAdapter_encode(ucs2_encode(text)))

\* PascalString build: StringAdapter._encode, LengthValueAdapter._encode,
\* then Sequence(length_field, Field("data", length)).
StringAdapter_encode(encoding, obj) ==
    IF encoding = "zlib" THEN zlib_encode(obj) ELSE obj
PascalString_build(con, obj) ==
    Sequence_build(con.length_field, 1,
        LengthValueAdapter_encode(StringAdapter_encode(con.encoding, obj)))

\* MetadataAdapter._encode(obj): obj is given as the items of the dict in the
\* order iteritems() yields them; the last entry is flagged peeked = 127, and
\* an empty dict is written as one entry (byte, slot 0, value 0).
IndexOf(seq, x) == (CHOOSE i \in DOMAIN seq : seq[i] = x) - 1

MetadataAdapter_encode(obj) ==
    IF obj = <<>>
    THEN <<[id |-> [first |-> 0, second |-> 0], value |-> 0, peeked |-> 127]>>
    ELSE [i \in DOMAIN obj |->
            [id |-> [first |-> IndexOf(metadata_types, obj[i].v.type),
                     second |-> obj[i].k],
             value |-> obj[i].v.value,
             peeked |-> IF i = Len(obj) THEN 127 ELSE NoPeek]]

RECURSIVE BuildCon(_, _, _, _)
RECURSIVE BuildSubcons(_, _, _)
RECURSIVE BuildArray(_, _, _, _, _)
RECURSIVE RepeatUntil_build(_, _)

\* Struct("data", ..)._build: the id byte and the value; Peek writes nothing.
metadata_data_build(d) ==
    Cat(Built(<<d.id.first * 32 + d.id.second>>),
        BuildCon(metadata_switch[d.id.first], d.value, EmptyContainer, <<>>))

\* RepeatUntil._build: the entries up to and with the first one the
\* predicate holds of; none is an ArrayError.
RepeatUntil_build(obj, i) ==
    IF i > Len(obj) THEN BuildRaise("ArrayError")
    ELSE IF obj[i].peeked = 127 THEN metadata_data_build(obj[i])
    ELSE Cat(metadata_data_build(obj[i]), RepeatUntil_build(obj, i + 1))

metadata_build(obj) ==
    Cat(RepeatUntil_build(MetadataAdapter_encode(obj), 1), Built(<<127>>))

\* Construct._build, by the class of the construct.
BuildCon(con, obj, ctx, scope) ==
    CASE con.con = "FormatField" -> Pack(con, obj)
      [] con.con = "Struct" -> BuildSubcons(con.subcons, 1, obj)
      [] con.con = "If" ->
            IF ctx[con.key] >= con.min
            THEN BuildCon(con.subcon, obj, ctx, scope)
            ELSE Built(<<>>)
      [] con.con = "Magic" -> Built(con.data)
      [] con.con = "Enum" -> Enum_encode(con, obj)
      [] con.con = "Flag" -> Flag_build(obj)
      [] con.con = "MetaField" ->
            IF Len(obj) # CountValue(scope, con.key, ctx) * con.mult
            THEN BuildRaise("FieldError")
            ELSE Built(obj)
      [] con.con = "MetaArray" ->
            IF Len(obj) # CountValue(scope, con.key, ctx)
            THEN BuildRaise("ArrayError")
            ELSE BuildArray(con.subcon, obj, 1, ctx, scope)
      [] con.con = "PascalString" -> PascalString_build(con, obj)
      [] con.con = "AlphaString" -> AlphaString_build(obj)
      [] con.con = "MetadataAdapter" -> metadata_build(obj)

\* Struct._build: getattr(obj, name) of every named subcon, obj itself for
\* an embedded one.
BuildSubcons(subcons, i, obj) ==
    IF i > Len(subcons) THEN Built(<<>>)
    ELSE IF IsEmbedded(subcons[i]) \/ subcons[i].name = None
    THEN Cat(BuildCon(subcons[i], obj, obj, subcons),
             BuildSubcons(subcons, i + 1, obj))
    ELSE IF subcons[i].name \notin DOMAIN obj
    THEN BuildRaise("AttributeError")
    ELSE Cat(BuildCon(subcons[i], obj[subcons[i].name], obj, subcons),
             BuildSubcons(subcons, i + 1, obj))

\* MetaArray._build: the elements in order.
BuildArray(subcon, obj, i, ctx, scope) ==
    IF i > Len(obj) THEN Built(<<>>)
    ELSE Cat(BuildCon(subcon, obj[i], ctx, scope),
             BuildArray(subcon, obj, i + 1, ctx, scope))

\* packets_by_name = dict((v.name, k) for (k, v) in packets.iteritems())
packets_by_name ==
    [n \in {packets[k].name : k \in DOMAIN packets} |->
        CHOOSE k \in DOMAIN packets : packets[k].name = n]

\* An update that keeps the items kwargs already holds.
update_first(kwargs, arg) ==
    [k \in (DOMAIN kwargs) \cup (DOMAIN arg) |->
        IF k \in DOMAIN kwargs THEN kwargs[k] ELSE arg[k]]
\* kwargs.update(dict(arg)): the items of arg replace those of kwargs.
update(kwargs, arg) ==
    [k \in (DOMAIN kwargs) \cup (DOMAIN arg) |->
        IF k \in DOMAIN arg THEN arg[k] ELSE kwargs[k]]

\* for arg in args: kwargs.update(dict(arg))
RECURSIVE merge(_, _)
merge(kwargs, args) ==
    IF args = <<>> THEN kwargs ELSE merge(update(kwargs, Head(args)), Tail(args))

\* make_packet(packet, *args, **kwargs): "" for a name that is not known,
\* else chr(header) + payload; an exception of the build is not caught.
make_packet_headless(packet, args, kwargs) ==
    IF packet \notin DOMAIN packets_by_name THEN Built(<<>>)
    ELSE BuildCon(packets[packets_by_name[packet]], merge(kwargs, args),
                  EmptyContainer, <<>>)
make_packet(packet, args, kwargs) ==
    IF packet \notin DOMAIN packets_by_name THEN Built(<<>>)
    ELSE Cat(Built(<<packets_by_name[packet]>>),
             BuildCon(packets[packets_by_name[packet]], merge(kwargs, args),
                      EmptyContainer, <<>>))

(***************************************************************************)
(* The payloads the model builds packets from: for every schema, a valid   *)
(* Container for each choice of what its fields hold.                      *)
(***************************************************************************)
IntChoices == {"zero", "max"}
Chars == {65, 8364}

SeqsUpTo(S, n) == UNION {[1..m -> S] : m \in 0..n}

Texts == SeqsUpTo(Chars, MaxText)

EntryPool ==
    { [k |-> 0, v |-> [type |-> "byte", value |-> 0]],
      [k |-> 1, v |-> [type |-> "short", value |-> 300]],
      [k |-> 2, v |-> [type |-> "int", value |-> <<0, 0, 0, 2>>]],
      [k |-> 31, v |-> [type |-> "float", value |-> <<63, 128, 0, 0>>]],
      [k |-> 4, v |-> [type |-> "string", value |-> <<65>>]],
      [k |-> 5, v |-> [type |-> "slot",
                       value |-> [primary |-> 1, count |-> 1, secondary |-> 0]]],
      [k |-> 6, v |-> [type |-> "coords",
                       value |-> [x |-> <<0, 0, 0, 1>>, y |-> <<0, 0, 0, 64>>,
                                  z |-> <<255, 255, 255, 255>>]]] }

\* The dicts of a metadata field, each as its items in iteration order.
MetaSamples ==
    {s \in SeqsUpTo(EntryPool, MaxMeta) :
        \A i, j \in DOMAIN s : i # j => s[i].k # s[j].k}

\* Those a packet's metadata field is sampled from.
PacketMetaSamples ==
    {s \in MetaSamples : \A i \in DOMAIN s : s[i].k \in {0, 31}}

RECURSIVE UsesKind(_, _)
UsesKind(con, kinds) ==
    \/ con.con \in kinds
    \/ con.con = "Struct" /\ \E i \in DOMAIN con.subcons : UsesKind(con.subcons[i], kinds)
    \/ con.con \in {"If", "MetaArray"} /\ UsesKind(con.subcon, kinds)

FillsFor(con) ==
    {[i |-> a, n |-> b, s |-> c, m |-> d] :
        a \in IntChoices,
        b \in IF UsesKind(con, {"MetaArray", "MetaField", "PascalString"})
              THEN 0..MaxArray ELSE {0},
        c \in IF UsesKind(con, {"AlphaString"}) THEN Texts ELSE {<<>>},
        d \in IF UsesKind(con, {"MetadataAdapter"}) THEN PacketMetaSamples ELSE {<<>>}}

IsCount(scope, name) ==
    \E i \in DOMAIN scope :
        scope[i].con \in {"MetaArray", "MetaField"} /\ scope[i].key = name

SampleByte(fill) == IF fill.i = "zero" THEN 0 ELSE IF fill.i = "one" THEN 1 ELSE 255

SampleInt(con, fill, scope) ==
    IF IsCount(scope, con.name)
    THEN IF con.length > 2 THEN ToBytes(fill.n, con.length) ELSE fill.n
    ELSE IF con.length > 2
         THEN IF fill.i = "one" THEN ToBytes(1, con.length)
              ELSE [j \in 1..con.length |-> SampleByte(fill)]
         ELSE IF fill.i = "zero" THEN 0
              ELSE IF fill.i = "one" THEN 1
              ELSE IF con.signed THEN 0 - 1
              ELSE IF con.length = 1 THEN 255 ELSE 65535

SampleEnum(con, fill) ==
    CHOOSE n \in DOMAIN con.mapping :
        \A o \in DOMAIN con.mapping :
            IF fill.i = "max" THEN con.mapping[o] <= con.mapping[n]
            ELSE con.mapping[o] >= con.mapping[n]

RECURSIVE SampleCon(_, _, _, _)
RECURSIVE SampleSubcons(_, _, _, _)

SampleCon(con, fill, ctx, scope) ==
    CASE con.con = "FormatField" -> SampleInt(con, fill, scope)
      [] con.con = "Struct" ->
            SampleSubcons(con.subcons, 1, fill,
                          IF con.embed THEN ctx ELSE EmptyContainer)
      [] con.con = "If" ->
            IF ctx[con.key] >= con.min
            THEN SampleCon(con.subcon, fill, ctx, scope)
            ELSE ctx
      [] con.con = "Magic" -> None
      [] con.con = "Enum" -> SampleEnum(con, fill)
      [] con.con = "Flag" -> fill.i # "zero"
      [] con.con = "MetaField" -> [j \in 1..(fill.n * con.mult) |-> SampleByte(fill)]
      [] con.con = "MetaArray" ->
            [j \in 1..fill.n |-> SampleCon(con.subcon, fill, ctx, scope)]
      [] con.con = "PascalString" -> [j \in 1..fill.n |-> SampleByte(fill)]
      [] con.con = "AlphaString" -> fill.s
      [] con.con = "MetadataAdapter" -> fill.m

SampleSubcons(subcons, i, fill, obj) ==
    IF i > Len(subcons) THEN obj
    ELSE SampleSubcons(subcons, i + 1, fill,
            IF subcons[i].name = None THEN obj
            ELSE IF IsEmbedded(subcons[i])
            THEN SampleCon(subcons[i], fill, obj, subcons)
            ELSE Put(obj, subcons[i].name,
                     SampleCon(subcons[i], fill, obj, subcons)))

PayloadsOf(con) ==
    {SampleCon(con, fill, EmptyContainer, <<>>) : fill \in FillsFor(con)}
Payloads(packet) == PayloadsOf(packets[packets_by_name[packet]])

PacketNames == DOMAIN packets_by_name

\* The byte strings make_packet returns for the payloads above.
ValidPackets ==
    UNION {{r.data : r \in {x \in {make_packet(packet, <<>>, kwargs) :
                                        kwargs \in Payloads(packet)} : x.st = "ok"}} :
           packet \in PacketNames}

\* Their proper prefixes: what has arrived of a packet still in flight.
ProperPrefixes ==
    UNION {{SubSeq(data, 1, k) : k \in 0..(Len(data) - 1)} : data \in ValidPackets}

(***************************************************************************)
(* simple(name, fmt, *args): a namedtuple packed by struct.Struct(fmt).    *)
(* fmt is given as the sequence of its format characters, big-endian.      *)
(***************************************************************************)
FormatSize(c) ==
    CASE c \in {"b", "B"} -> 1
      [] c \in {"h", "H"} -> 2
      [] c \in {"i", "I", "f"} -> 4
      [] c \in {"q", "Q", "d"} -> 8

\* struct.Struct(fmt).size
RECURSIVE calcsize(_)
calcsize(fmt) ==
    IF fmt = <<>> THEN 0 ELSE FormatSize(Head(fmt)) + calcsize(Tail(fmt))

\* s.unpack_from(buf, offset)
RECURSIVE unpack_from(_, _, _)
unpack_from(fmt, buf, offset) ==
    IF fmt = <<>> THEN <<>>
    ELSE <<Unpack(FormatField(Head(fmt), FormatSize(Head(fmt)),
                              Head(fmt) \in {"b", "h", "i", "q"}),
                  SubSeq(buf, offset + 1, offset + FormatSize(Head(fmt))))>>
         \o unpack_from(Tail(fmt), buf, offset + FormatSize(Head(fmt)))

\* simple(..).parse(buf, offset): (packet, next offset), or (None, the
\* amount of data required); st tells which of the two it is.
simple_parse(fmt, buf, offset) ==
    IF Len(buf) >= calcsize(fmt) + offset
    THEN [st |-> "packet", packet |-> unpack_from(fmt, buf, offset),
          n |-> calcsize(fmt) + offset]
    ELSE [st |-> "None", packet |-> <<>>, n |-> calcsize(fmt) - Len(buf)]

(***************************************************************************)
(* The state machine.  A stream is written frame by frame (whole packets   *)
(* of make_packet, the first bytes of one, raw bytes); then it is parsed   *)
(* in bulk at some split, or incrementally by the generator.               *)
(***************************************************************************)
Init ==
    /\ bytestream = <<>>
    /\ frames = <<>>
    /\ call = [op |-> "none"]
    /\ gen = [st |-> "none"]

Idle == call.op = "none" /\ gen.st = "none"

Count(kind) == Cardinality({i \in DOMAIN frames : frames[i].kind = kind})

Writing ==
    /\ Idle
    /\ IF frames = <<>> THEN TRUE
       ELSE frames[Len(frames)].kind \in {"packet", "raw"}

Fits(data) ==
    IF frames = <<>> THEN TRUE ELSE Len(bytestream) + Len(data) <= MaxStream

\* The sender writes a whole packet, the bytes make_packet returned.
Send(data) ==
    /\ Writing
    /\ Count("packet") < MaxFrames
    /\ Fits(data)
    /\ bytestream' = bytestream \o data
    /\ frames' = Append(frames, [kind |-> "packet", len |-> Len(data)])
    /\ UNCHANGED <<call, gen>>

\* The transport has delivered only the first bytes of a packet.
SendPartial(data) ==
    /\ Idle
    /\ frames = <<>>
    /\ bytestream' = bytestream \o data
    /\ frames' = Append(frames, [kind |-> "partial", len |-> Len(data)])
    /\ UNCHANGED <<call, gen>>

\* A byte of the only packet is overwritten.
Corrupt(i, b) ==
    /\ Idle
    /\ Len(frames) = 1
    /\ frames[1].kind = "packet"
    /\ bytestream[i] # b
    /\ bytestream' = [bytestream EXCEPT ![i] = b]
    /\ frames' = <<[kind |-> "corrupt", len |-> Len(bytestream)]>>
    /\ UNCHANGED <<call, gen>>

\* An arbitrary byte is written.
Feed(b) ==
    /\ Writing
    /\ Count("raw") < MaxRaw
    /\ Len(bytestream) < MaxStream
    /\ bytestream' = Append(bytestream, b)
    /\ frames' = Append(frames, [kind |-> "raw", len |-> 1])
    /\ UNCHANGED <<call, gen>>

\* The receiver calls parse_packets on the first k bytes, then again on the
\* leftovers with the rest appended; the call on all bytes is recorded too.
SplitCall(a, b, first) ==
    [op |-> "parse_packets", a |-> a, b |-> b, first |-> first,
     second |-> parse_packets(first.leftovers \o b),
     whole |-> parse_packets(a \o b)]
ParsePackets(k) ==
    /\ Idle
    /\ k \in 0..Len(bytestream)
    /\ call' = SplitCall(SubSeq(bytestream, 1, k),
                         SubSeq(bytestream, k + 1, Len(bytestream)),
                         parse_packets(SubSeq(bytestream, 1, k)))
    /\ UNCHANGED <<bytestream, frames, gen>>

\* parse_packets_incrementally(bytestream): the generator is created.
IncrStart ==
    /\ Idle
    /\ gen' = [st |-> "suspended", bytestream |-> bytestream, yielded |-> <<>>]
    /\ UNCHANGED <<bytestream, frames, call>>

\* One turn of "while bytestream:": the parse raises, or a packet is yielded
\* and the leftovers are kept.
Resume(g, parsed) ==
    IF parsed.st # "ok"
    THEN [g EXCEPT !.st = parsed.st]
    ELSE [st |-> "suspended",
          bytestream |-> parsed.val.leftovers,
          yielded |-> Append(g.yielded, <<parsed.val.full_packet.header,
                                          parsed.val.full_packet.payload>>)]

\* next() of the generator.
IncrNext ==
    /\ gen.st = "suspended"
    /\ gen' = IF gen.bytestream = <<>>
              THEN [gen EXCEPT !.st = "StopIteration"]
              ELSE Resume(gen, incremental_packet_stream_parse(gen.bytestream))
    /\ UNCHANGED <<bytestream, frames, call>>

StreamBytes == {0, 27}
CorruptBytes == {27}

NextStream ==
    \/ \E data \in ValidPackets : Send(data)
    \/ \E data \in ProperPrefixes : SendPartial(data)
    \/ \E i \in 1..Len(bytestream), b \in CorruptBytes : Corrupt(i, b)
    \/ \E b \in StreamBytes : Feed(b)
    \/ \E k \in 0..Len(bytestream) : ParsePackets(k)
    \/ IncrStart
    \/ IncrNext

SpecStream == Init /\ [][NextStream]_vars

(***************************************************************************)
(* make_packet called with keyword values and positional extras.           *)
(***************************************************************************)
UnknownNames == {"not-a-real-packet", ""}

\* The container holding only the field f of kwargs.
Only(kwargs, f) == [x \in {f} |-> kwargs[x]]

\* What a call passes as **kwargs and as each of *args.
KwargsFor(packet) ==
    IF packet \in PacketNames
    THEN Payloads(packet) \cup {EmptyContainer}
    ELSE {EmptyContainer}
ExtrasFor(packet) ==
    IF packet \in PacketNames
    THEN UNION {{Only(kwargs, f) : f \in DOMAIN kwargs} : kwargs \in Payloads(packet)}
    ELSE {EmptyContainer}

MakePacket(packet, args, kwargs) ==
    /\ Idle
    /\ call' = [op |-> "make_packet", packet |-> packet, args |-> args,
                kwargs |-> kwargs, ret |-> make_packet(packet, args, kwargs)]
    /\ bytestream' = make_packet(packet, args, kwargs).data
    /\ UNCHANGED <<frames, gen>>

\* One call is made, then the model is at rest.
NextBuild ==
    /\ Idle
    /\ \E packet \in PacketNames \cup UnknownNames :
          \E kwargs \in KwargsFor(packet) :
             \E args \in SeqsUpTo(ExtrasFor(packet), MaxExtra) :
                MakePacket(packet, args, kwargs)

SpecBuild == Init /\ [][NextBuild]_vars

(***************************************************************************)
(* The field codecs on their own: items, metadata, AlphaString.            *)
(***************************************************************************)
CodecBytes == {0, 1, 255}
CodecTexts == SeqsUpTo(Chars, MaxChars)

\* A byte arrives in the buffer a codec will read.
Write(b) ==
    /\ Idle
    /\ Len(bytestream) < MaxBuf
    /\ bytestream' = Append(bytestream, b)
    /\ UNCHANGED <<frames, call, gen>>

\* items.parse(bytestream)
ParseItems ==
    /\ Idle
    /\ call' = [op |-> "items.parse",
                ret |-> ParseCon(items, bytestream, 0, EmptyContainer, <<>>)]
    /\ UNCHANGED <<bytestream, frames, gen>>

\* metadata.build(obj) into an empty buffer, then metadata.parse of it.
BuildMetadata(obj) ==
    /\ Idle
    /\ bytestream = <<>>
    /\ call' = [op |-> "metadata.build", obj |-> obj,
                ret |-> metadata_build(obj),
                back |-> metadata_parse(metadata_build(obj).data, 0)]
    /\ bytestream' = metadata_build(obj).data
    /\ UNCHANGED <<frames, gen>>

\* AlphaString("s").build(text), then its parse from a stream in which the
\* bytes of the buffer follow the string.
BuildAlphaString(text) ==
    /\ Idle
    /\ Len(bytestream) <= MaxTail
    /\ call' = [op |-> "AlphaString.build", text |-> text,
                ret |-> AlphaString_build(text),
                back |-> AlphaString_parse(AlphaString_build(text).data
                                           \o bytestream, 0)]
    /\ UNCHANGED <<bytestream, frames, gen>>

NextCodec ==
    \/ \E b \in CodecBytes : Write(b)
    \/ ParseItems
    \/ \E obj \in MetaSamples : BuildMetadata(obj)
    \/ \E text \in CodecTexts : BuildAlphaString(text)

SpecCodec == Init /\ [][NextCodec]_vars

(***************************************************************************)
(* simple packets: parse at an offset of the buffer.                       *)
(***************************************************************************)
SimpleFormats == {<<"b">>, <<"H", "b">>, <<"i">>}

SimpleParse(fmt, offset) ==
    /\ Idle
    /\ call' = [op |-> "simple.parse", fmt |-> fmt, offset |-> offset,
                ret |-> simple_parse(fmt, bytestream, offset)]
    /\ UNCHANGED <<bytestream, frames, gen>>

NextSimple ==
    \/ \E b \in CodecBytes : Write(b)
    \/ \E fmt \in SimpleFormats, offset \in 0..MaxOffset : SimpleParse(fmt, offset)

SpecSimple == Init /\ [][NextSimple]_vars

(***************************************************************************)
(* Properties.                                                             *)
(***************************************************************************)
\* The stream is the first bytes of one packet.
OnePartial == IF Len(frames) = 1 THEN frames[1].kind = "partial" ELSE FALSE

\* C1: parse_packets of a proper prefix of a valid packet returns no packet
\* and the prefix, whole, as its leftovers.
C1_PrefixIsLeftover ==
    (call.op = "parse_packets" /\ OnePartial)
        => /\ call.whole.st = "ok"
           /\ call.whole.l = <<>>
           /\ call.whole.leftovers = bytestream

\* C2: parse_packets is invariant under the split of its input: when
\* parse_packets(a) = (P1, L1) and parse_packets(L1 + b) = (P2, L2), then
\* parse_packets(a + b) = (P1 + P2, L2).
C2_SplitInvariance ==
    (call.op = "parse_packets" /\ call.first.st = "ok" /\ call.second.st = "ok")
        => /\ call.whole.st = "ok"
           /\ call.whole.l = call.first.l \o call.second.l
           /\ call.whole.leftovers = call.second.leftovers

\* A split in the middle of the second of two packets, bytes left at the end.
C2_SplitInPacket ==
    /\ call.op = "parse_packets"
    /\ call.first.st = "ok"
    /\ call.second.st = "ok"
    /\ Len(call.first.l) = 1
    /\ call.first.leftovers # <<>>
    /\ Len(call.second.l) = 1
    /\ call.second.leftovers # <<>>

\* The errors of data that is not valid: an opcode that is not registered, an
\* integer no name of an Enum stands for, a marker that is not the Magic.
HardErrors == {"SwitchError", "MappingError", "ConstError"}

\* The call was split where a packet begins, and the packet that begins
\* there is not valid.
NextPacketInvalid ==
    /\ call.op = "parse_packets"
    /\ call.first.st = "ok"
    /\ call.first.leftovers = <<>>
    /\ full_packet_parse(call.b, 0).st \in HardErrors

\* C3 (as the code has it): when the next packet of the buffer has an opcode
\* that is not registered, an Enum value without a name or an item marker
\* that is not FF FF, parse_packets raises nothing: it returns the packets
\* before it and, as leftovers, every byte from the start of that packet.
C3_InvalidPacketIsLeftover ==
    NextPacketInvalid
        => /\ call.whole.st = "ok"
           /\ call.whole.l = call.first.l
           /\ call.whole.leftovers = call.b

\* A packet whose item marker is not FF FF was parsed, and came back as
\* leftovers.
C3_BadMarkerParsed ==
    /\ NextPacketInvalid
    /\ full_packet_parse(call.b, 0).st = "ConstError"
    /\ call.whole.st = "ok"
    /\ call.whole.leftovers = call.b

\* C3: when the next packet of the buffer has an opcode that is not
\* registered, an Enum value without a name or an item marker that is not
\* FF FF, parse_packets raises an error to its caller.
C3_InvalidPacketRaises ==
    NextPacketInvalid => call.whole.st \in HardErrors

\* The stream is two whole packets and then raw bytes that are the first
\* bytes, at least one, of a valid packet.
Remainder ==
    SubSeq(bytestream, frames[1].len + frames[2].len + 1, Len(bytestream))
TwoPacketsAndRemainder ==
    IF Len(frames) < 3 THEN FALSE
    ELSE /\ frames[1].kind = "packet"
         /\ frames[2].kind = "packet"
         /\ \A i \in 3..Len(frames) : frames[i].kind = "raw"
         /\ Remainder \in ProperPrefixes

\* C4: on two whole packets followed by a non-empty proper prefix of a
\* packet, the generator of parse_packets_incrementally yields the two
\* packets in order and then ends with StopIteration, raising no error.
C4_IncrementalStopsCleanly ==
    (gen.st \notin {"none", "suspended"} /\ TwoPacketsAndRemainder)
        => /\ gen.st = "StopIteration"
           /\ Len(gen.yielded) = 2

\* C5: make_packet of a name that is not registered raises nothing and
\* returns the empty string; a successful make_packet of a registered name
\* returns at least one byte, the first of which is the opcode of the name;
\* packets_by_name is the inverse of packets.
C5_UnknownNameDistinct ==
    /\ \A k \in DOMAIN packets : packets_by_name[packets[k].name] = k
    /\ call.op = "make_packet"
        => IF call.packet \notin DOMAIN packets_by_name
           THEN call.ret.st = "ok" /\ call.ret.data = <<>>
           ELSE call.ret.st = "ok"
                    => /\ Len(call.ret.data) >= 1
                       /\ call.ret.data[1] = packets_by_name[call.packet]
                       /\ packets[call.ret.data[1]].name = call.packet

\* make_packet was called with a name that is not registered.
C5_UnknownNameCalled ==
    /\ call.op = "make_packet"
    /\ call.packet \notin DOMAIN packets_by_name
    /\ call.ret.data = <<>>

\* The sources of field values of the call, in call order: the keyword
\* values, then each positional container.
Sources == <<call.kwargs>> \o call.args
Supplied == UNION {DOMAIN Sources[i] : i \in DOMAIN Sources}
Suppliers(f) == {i \in DOMAIN Sources : f \in DOMAIN Sources[i]}
Earliest(f) == CHOOSE i \in Suppliers(f) : \A j \in Suppliers(f) : i <= j
Latest(f) == CHOOSE i \in Suppliers(f) : \A j \in Suppliers(f) : i >= j
EarliestWins == [f \in Supplied |-> Sources[Earliest(f)][f]]
LatestWins == [f \in Supplied |-> Sources[Latest(f)][f]]

\* C6 (as the code has it): a field supplied by more than one source of a
\* make_packet call is built from the latest source in call order, the
\* keyword values being the first source.
C6_LatestSourceWins ==
    (call.op = "make_packet" /\ call.packet \in DOMAIN packets_by_name)
        => call.ret = make_packet(call.packet, <<>>, LatestWins)

\* A field is supplied by the keyword values and by two positional
\* containers, with a different value in each of the containers.
C6_ThreeSources ==
    /\ call.op = "make_packet"
    /\ call.ret.st = "ok"
    /\ Len(call.args) = 2
    /\ \E f \in DOMAIN call.kwargs :
          /\ f \in DOMAIN call.args[1]
          /\ f \in DOMAIN call.args[2]
          /\ call.args[1][f] # call.args[2][f]
          /\ call.args[2][f] # call.kwargs[f]

\* C6: a field supplied by more than one source of a make_packet call is
\* built from the earliest source; a later source never replaces a value.
C6_EarliestSourceWins ==
    (call.op = "make_packet" /\ call.packet \in DOMAIN packets_by_name)
        => call.ret = make_packet(call.packet, <<>>, EarliestWins)

\* C7: the empty metadata mapping is built as the bytes 00 00 7F, and
\* parsing those bytes gives the empty mapping.
C7_EmptyMetadataRoundTrip ==
    (call.op = "metadata.build" /\ call.obj = <<>>)
        => /\ call.ret = Built(<<0, 0, 127>>)
           /\ call.back.st = "ok"
           /\ DOMAIN call.back.val = {}

\* The primary id the buffer begins with, as a signed 16-bit integer.
PrimaryOf(buf) == Signed(buf[1] * 256 + buf[2], 32768)

\* C8: parsing an item stack reads 2 bytes and gives the primary id alone
\* when the id is negative; when it is not, it reads 7 bytes (primary, count,
\* secondary, marker) if the last two are FF FF, and raises ConstError, not
\* the FieldError of a short stream, if they are not.
C8_ItemStack ==
    (call.op = "items.parse" /\ Len(bytestream) >= 2)
        => IF PrimaryOf(bytestream) < 0
           THEN /\ call.ret.st = "ok"
                /\ call.ret.pos = 2
                /\ DOMAIN call.ret.val = {"primary"}
                /\ call.ret.val.primary = PrimaryOf(bytestream)
           ELSE Len(bytestream) >= 7
                    => IF SubSeq(bytestream, 6, 7) = <<255, 255>>
                       THEN /\ call.ret.st = "ok"
                            /\ call.ret.pos = 7
                            /\ call.ret.val =
                                  [primary |-> PrimaryOf(bytestream),
                                   count |-> bytestream[3],
                                   secondary |-> bytestream[4] * 256 + bytestream[5]]
                       ELSE call.ret.st = "ConstError"

\* An item stack of 7 bytes was parsed.
C8_FullStackParsed ==
    /\ call.op = "items.parse"
    /\ call.ret.st = "ok"
    /\ call.ret.pos = 7

\* C9: AlphaString builds a text of N characters as N in 16 bits, big-endian,
\* and 2N bytes; parsing a stream that begins with them reads those 2 + 2N
\* bytes and gives the text.
C9_AlphaStringRoundTrip ==
    call.op = "AlphaString.build"
        => /\ call.ret.st = "ok"
           /\ Len(call.ret.data) = 2 + 2 * Len(call.text)
           /\ SubSeq(call.ret.data, 1, 2) = ToBytes(Len(call.text), 2)
           /\ call.back.st = "ok"
           /\ call.back.pos = 2 + 2 * Len(call.text)
           /\ call.back.val = call.text

\* A text of two characters or more was built and parsed with bytes after it.
C9_TextBuilt ==
    /\ call.op = "AlphaString.build"
    /\ Len(call.text) >= 2
    /\ bytestream # <<>>
    /\ call.back.val = call.text

\* C10: simple(..).parse(buf, offset) returns the packet and offset + S when
\* len(buf) >= offset + S; otherwise None and the amount of data required,
\* offset + S - len(buf), which is positive.
C10_SimpleParseRequired ==
    call.op = "simple.parse"
        => IF Len(bytestream) >= call.offset + calcsize(call.fmt)
           THEN /\ call.ret.st = "packet"
                /\ call.ret.n = call.offset + calcsize(call.fmt)
           ELSE /\ call.ret.st = "None"
                /\ call.ret.n = call.offset + calcsize(call.fmt) - Len(bytestream)
                /\ call.ret.n > 0

\* The slots of the metadata items handed to the build.
SlotsOf(obj) == {obj[i].k : i \in DOMAIN obj}

\* C11: a metadata mapping that is not empty is parsed back from its built
\* form as the same mapping, with every built byte read: the loop ends at
\* the terminator written after the last entry and at no byte before it.
C11_MetadataRoundTrip ==
    (call.op = "metadata.build" /\ call.obj # <<>>)
        => /\ call.ret.st = "ok"
           /\ call.back.st = "ok"
           /\ call.back.pos = Len(call.ret.data)
           /\ IF DOMAIN call.back.val = SlotsOf(call.obj)
              THEN \A i \in DOMAIN call.obj :
                      call.back.val[call.obj[i].k] = call.obj[i].v
              ELSE FALSE

\* s is what remains of t after some of its first bytes.
IsSuffix(s, t) ==
    IF Len(s) > Len(t) THEN FALSE
    ELSE s = SubSeq(t, Len(t) - Len(s) + 1, Len(t))

\* What the generator holds is a suffix of its input, and it has yielded no
\* more packets than the bytes it has taken from it.
GeneratorBounded ==
    gen.st # "none"
        => /\ IsSuffix(gen.bytestream, bytestream)
           /\ Len(gen.yielded) + Len(gen.bytestream) <= Len(bytestream)

\* A step of the generator yields a packet and keeps a strictly shorter
\* suffix of its bytes, or ends it: StopIteration when no byte is left, an
\* exception of the parse otherwise.
GeneratorStep ==
    IF gen.st # "suspended" THEN TRUE
    ELSE IF gen'.st = "suspended"
    THEN /\ Len(gen'.yielded) = Len(gen.yielded) + 1
         /\ Len(gen'.bytestream) < Len(gen.bytestream)
         /\ IsSuffix(gen'.bytestream, gen.bytestream)
    ELSE /\ gen'.yielded = gen.yielded
         /\ gen'.st = "StopIteration" <=> gen.bytestream = <<>>

\* C12: parse_packets_incrementally finishes on every input: each packet
\* yielded takes at least the opcode byte, so what remains after a yield is
\* a strictly shorter suffix of what remained before it, and the generator
\* ends, exhausted or with an error, after at most len(input) packets.
C12_IncrementalTerminates == []GeneratorBounded /\ [][GeneratorStep]_vars

\* The generator ended by exhaustion after two packets.
C12_TwoYieldedThenStop ==
    /\ gen.st = "StopIteration"
    /\ Len(gen.yielded) = 2
====
